---------------------------- MODULE Spec2Model ----------------------------
(***************************************************************************)
(* Model of the cybsi SDK data-mapping layer:                              *)
(*   - GenericObservationForm (cybsi.api and the legacy cybsi_sdk client), *)
(*   - GenericObservationsAPI.register / view, RelationshipsAPI.forecast,  *)
(*   - the views RelationshipsForecastView, RelationshipView,              *)
(*     GenericObservationView, GenericObservationContentView,              *)
(*     AttributeValueView and their legacy counterparts.                   *)
(*                                                                         *)
(* Python values are records whose single field name is the Python type:   *)
(*   None = [none |-> TRUE], bool = [bool |-> b], int = [int |-> n],       *)
(*   float = [float |-> tenths], str = [str |-> s], list = [list |-> seq], *)
(*   uuid.UUID = [UUID |-> n], datetime = [datetime |-> .., utcoffset..],  *)
(*   an object of class K over a document = [K |-> document].              *)
(* A dict (JSON object) is a record keyed by the JSON keys.  Two values of *)
(* different Python types therefore never have the same field names.       *)
(* A path "/a/b/c" is the sequence of its segments <<"a", "b", "c">>.      *)
(***************************************************************************)
EXTENDS Integers, Sequences, FiniteSets, TLC

VARIABLES
    forms,      \* heap: form object id -> [id, cls, _data]
    made,       \* history: per form, the arguments its constructor was called with
    calls,      \* history: per form, the arguments of the add_* calls that returned
                \* (eav, rel) and whether an add_* call raised
    last,       \* the latest operation when it is a call of a form method, of an
                \* endpoint or of a view constructor: [op, self, args, ret]
    sent,       \* history: bodies posted by register since the form was last mutated
    http,       \* the HTTP calls that call made
    result,     \* what that call, when an endpoint invocation, gave its caller
    held,       \* the view object the caller holds
    read        \* the latest operation when it is a property read on the held
                \* view: [prop, val]

vars == <<forms, made, calls, last, sent, http, result, held, read>>

-----------------------------------------------------------------------------
(* Bounds of the model *)

MaxFacts == 3       \* add_* calls that returned, over all forms
MaxSends == 2       \* register calls between two mutations of the form

-----------------------------------------------------------------------------
(* Python values *)

None == [none |-> TRUE]
Str(s) == [str |-> s]
Float(tenths) == [float |-> tenths]
Integer(n) == [int |-> n]
Bool(b) == [bool |-> b]
List(seq) == [list |-> seq]
UUID(n) == [UUID |-> n]

IsNone(v) == "none" \in DOMAIN v
IsUUID(v) == "UUID" \in DOMAIN v

Raise(exc) == [raise |-> exc]
Return(v) == [return |-> v]
Raised(r) == "raise" \in DOMAIN r

\* str(uuid.UUID): the canonical 8-4-4-4-12 text of the 128-bit number
str_uuid(u) ==
    CASE u.UUID = 1 -> Str("00000000-0000-0000-0000-000000000001")
      [] u.UUID = 2 -> Str("00000000-0000-0000-0000-000000000002")
      [] u.UUID = 3 -> Str("00000000-0000-0000-0000-000000000003")

\* dict operations
EmptyDict == [k \in {} |-> None]
dict_set(d, k, v) == [j \in DOMAIN d \cup {k} |-> IF j = k THEN v ELSE d[j]]
dict_setdefault(d, k, v) == IF k \in DOMAIN d THEN d ELSE dict_set(d, k, v)

-----------------------------------------------------------------------------
(* Enumerations: a member is [enum, name, value]; .value is the wire string *)

Member(enum, name, value) == [enum |-> enum, name |-> name, value |-> value]

ShareLevels ==
    { Member("ShareLevels", "White", "White"),
      Member("ShareLevels", "Green", "Green") }

AttributeNames ==
    { Member("AttributeNames", "IsIoC", "IsIoC"),
      Member("AttributeNames", "IsMalicious", "IsMalicious") }

RelationshipKinds ==
    { Member("RelationshipKinds", "Resolves", "Resolves"),
      Member("RelationshipKinds", "ResolvesTo", "ResolvesTo") }

ObservationTypes ==
    { Member("ObservationTypes", n, n) :
        n \in {"DNSLookup", "WhoisLookup", "NetworkSession", "ScanSession",
               "Threat", "Generic"} }

EnumMember(enum, name) == CHOOSE m \in enum : m.name = name

\* Enum(value): the member with that value, or an error
EnumLookup(enum, v) ==
    IF "str" \in DOMAIN v /\ \E m \in enum : m.value = v.str
    THEN Return(CHOOSE m \in enum : m.value = v.str)
    ELSE Raise("UnknownEnumValue")

-----------------------------------------------------------------------------
(* Timestamps *)

\* an aware datetime: wall clock text and UTC offset in minutes
DateTime(wall, offset) == [datetime |-> wall, utcoffset |-> offset]

\* a naive datetime (tzinfo is None): wall clock text only
NaiveDateTime(wall) == [datetime |-> wall]

\* t.utcoffset() is None
IsNaive(t) == "utcoffset" \notin DOMAIN t

\* the text of a UTC offset given in minutes
OffsetText(minutes) ==
    CASE minutes = 0 -> "+00:00"
      [] minutes = 180 -> "+03:00"

\* string concatenation, tabulated over the timestamps of the model
Concat(a, b) ==
    CASE a = "2021-12-24T17:50:08" /\ b = "+03:00" -> "2021-12-24T17:50:08+03:00"
      [] a = "2021-12-24T17:50:08" /\ b = "+00:00" -> "2021-12-24T17:50:08+00:00"
      [] a = "2021-12-24T14:50:08" /\ b = "+03:00" -> "2021-12-24T14:50:08+03:00"
      [] a = "2021-12-24T14:50:08" /\ b = "+00:00" -> "2021-12-24T14:50:08+00:00"

\* rfc3339_timestamp: RFC3339 text with an explicit numeric offset
rfc3339_timestamp(t) == Str(Concat(t.datetime, OffsetText(t.utcoffset)))

\* datetime.isoformat(): the offset is written for an aware datetime only
isoformat(t) ==
    IF IsNaive(t)
    THEN Str(t.datetime)
    ELSE Str(Concat(t.datetime, OffsetText(t.utcoffset)))

\* the text before the offset of an RFC3339 text, and its offset in minutes,
\* tabulated over the timestamps of the model
WallOf(text) ==
    CASE text \in {"2021-12-24T17:50:08+03:00", "2021-12-24T17:50:08+00:00"} ->
            "2021-12-24T17:50:08"
      [] text \in {"2021-12-24T14:50:08+03:00", "2021-12-24T14:50:08+00:00"} ->
            "2021-12-24T14:50:08"
OffsetOf(text) ==
    CASE text \in {"2021-12-24T17:50:08+03:00", "2021-12-24T14:50:08+03:00"} -> 180
      [] text \in {"2021-12-24T17:50:08+00:00", "2021-12-24T14:50:08+00:00"} -> 0

\* the texts with a date, a time and a numeric offset
HasOffset(text) ==
    text \in {"2021-12-24T17:50:08+03:00", "2021-12-24T17:50:08+00:00",
              "2021-12-24T14:50:08+03:00", "2021-12-24T14:50:08+00:00"}

\* parse_rfc3339_timestamp: the aware datetime an RFC3339 text stands for, its
\* offset kept; a text that is not RFC3339 is an error
parse_rfc3339_timestamp(v) ==
    IF "str" \in DOMAIN v /\ HasOffset(v.str)
    THEN Return(DateTime(WallOf(v.str), OffsetOf(v.str)))
    ELSE Raise("ValueError")

-----------------------------------------------------------------------------
(* Forms *)

\* JsonObjectForm.json(): the form's document
json(data) == data

\* EntityForm(type).add_key(key_type, value)
EntityForm(type, key_type, value) ==
    [EntityForm |->
        [type |-> Str(type),
         keys |-> List(<<[type |-> Str(key_type), value |-> Str(value)]>>)]]

\* GenericObservationForm.__init__
GenericObservationForm(share_level, seen_at) ==
    [shareLevel |-> Str(share_level.value),
     seenAt |-> rfc3339_timestamp(seen_at)]

\* legacy GenericObservationForm.__init__
sdk_GenericObservationForm(share_level, seen_at) ==
    [shareLevel |-> Str(share_level.value),
     seenAt |-> isoformat(seen_at)]

\* GenericObservationForm._content: the document after the access
\* (setdefault creates "content" when it is missing)
_content(data) == dict_setdefault(data, "content", EmptyDict)

\* the outcome of a method call on the form object self = [id, cls, _data]:
\* its document afterwards and what the call gave the caller (return self
\* gives the reference self.id)
Outcome(data, ret) == [_data |-> data, ret |-> ret]

\* set_data_source returning a copy of the form instead of the form
set_data_source_returns_copy(self, source_uuid) ==
    Outcome(dict_set(self._data, "dataSourceUUID", str_uuid(source_uuid)),
            Return(self.id + 2))

\* set_data_source starting the document's content over
set_data_source_clears_content(self, source_uuid) ==
    LET data == dict_set(self._data, "dataSourceUUID", str_uuid(source_uuid))
    IN  Outcome([k \in DOMAIN data \ {"content"} |-> data[k]], Return(self.id))

\* GenericObservationForm.set_data_source
set_data_source(self, source_uuid) ==
    Outcome(dict_set(self._data, "dataSourceUUID", str_uuid(source_uuid)),
            Return(self.id))

\* add_attribute_fact inserting the fact at the head of the list
add_attribute_fact_prepends(self, entity, attribute_name, value, confidence) ==
    LET data == _content(self._data)
        content == dict_setdefault(data.content, "entityAttributeValues", List(<<>>))
        ent == IF IsUUID(entity)
               THEN [uuid |-> str_uuid(entity)]
               ELSE json(entity.EntityForm)
        fact == [entity |-> ent,
                 attributeName |-> Str(attribute_name.value),
                 value |-> value,
                 confidence |-> confidence]
        attribute_facts == List(<<fact>> \o content.entityAttributeValues.list)
    IN  Outcome([data EXCEPT !.content =
                    [content EXCEPT !.entityAttributeValues = attribute_facts]],
                Return(self.id))

\* GenericObservationForm.add_attribute_fact
add_attribute_fact(self, entity, attribute_name, value, confidence) ==
    LET data == _content(self._data)
        content == dict_setdefault(data.content, "entityAttributeValues", List(<<>>))
        ent == IF IsUUID(entity)
               THEN [uuid |-> str_uuid(entity)]
               ELSE json(entity.EntityForm)
        fact == [entity |-> ent,
                 attributeName |-> Str(attribute_name.value),
                 value |-> value,
                 confidence |-> confidence]
        attribute_facts == List(Append(content.entityAttributeValues.list, fact))
    IN  Outcome([data EXCEPT !.content =
                    [content EXCEPT !.entityAttributeValues = attribute_facts]],
                Return(self.id))

\* add_entity_relationship recording the source entity as the target too
add_entity_relationship_copies_source(self, source, kind, target, confidence) ==
    LET data == _content(self._data)
        content == dict_setdefault(data.content, "entityRelationships", List(<<>>))
        source_ent == IF IsUUID(source)
                      THEN [uuid |-> str_uuid(source)]
                      ELSE json(source.EntityForm)
        fact == [source |-> source_ent,
                 kind |-> Str(kind.value),
                 target |-> source_ent,
                 confidence |-> confidence]
        entity_relationship == List(Append(content.entityRelationships.list, fact))
    IN  Outcome([data EXCEPT !.content =
                    [content EXCEPT !.entityRelationships = entity_relationship]],
                Return(self.id))

\* GenericObservationForm.add_entity_relationship
add_entity_relationship(self, source, kind, target, confidence) ==
    LET data == _content(self._data)
        content == dict_setdefault(data.content, "entityRelationships", List(<<>>))
        source_ent == IF IsUUID(source)
                      THEN [uuid |-> str_uuid(source)]
                      ELSE json(source.EntityForm)
        target_ent == IF IsUUID(target)
                      THEN [uuid |-> str_uuid(target)]
                      ELSE json(target.EntityForm)
        fact == [source |-> source_ent,
                 kind |-> Str(kind.value),
                 target |-> target_ent,
                 confidence |-> confidence]
        entity_relationship == List(Append(content.entityRelationships.list, fact))
    IN  Outcome([data EXCEPT !.content =
                    [content EXCEPT !.entityRelationships = entity_relationship]],
                Return(self.id))

\* legacy GenericObservationForm.set_data_source
sdk_set_data_source(self, source_uuid) ==
    Outcome(dict_set(self._data, "dataSourceUUID", str_uuid(source_uuid)),
            Return(self.id))

\* legacy GenericObservationForm.add_attribute_fact: entity.json() is called
\* whatever entity is, after the list has been looked up (and created)
sdk_add_attribute_fact(self, entity, attribute_name, value, confidence) ==
    LET data == _content(self._data)
        content == dict_setdefault(data.content, "entityAttributeValues", List(<<>>))
        created == [data EXCEPT !.content = content]
    IN  IF "EntityForm" \in DOMAIN entity
        THEN LET fact == [entity |-> json(entity.EntityForm),
                          attributeName |-> Str(attribute_name.value),
                          value |-> value,
                          confidence |-> confidence]
                 attribute_facts ==
                     List(Append(content.entityAttributeValues.list, fact))
             IN  Outcome([data EXCEPT !.content =
                             [content EXCEPT !.entityAttributeValues = attribute_facts]],
                         Return(self.id))
        ELSE Outcome(created, Raise("AttributeError"))

-----------------------------------------------------------------------------
(* Resource endpoints.  The connector's answer to a call is either             *)
(* Return(document), the decoded JSON body, or Raise(error).  An endpoint      *)
(* operation gives [http, result]: the HTTP calls it made and what its caller  *)
(* gets.                                                                       *)

GenericObservationsAPI_path == <<"enrichment", "observations", "generics">>
RelationshipsAPI_path == <<"observable", "relationships">>

\* convert_relationship_kind_kebab
convert_relationship_kind_kebab(kind) ==
    CASE kind.name = "Resolves" -> "resolves"
      [] kind.name = "ResolvesTo" -> "resolves-to"

\* register consuming the form: only the first call posts the document
register_consumes(observation, response) ==
    LET r == [method |-> "POST",
              path |-> GenericObservationsAPI_path,
              json |-> IF sent = <<>> THEN json(observation._data) ELSE EmptyDict]
    IN  [http |-> <<r>>,
         result |-> IF Raised(response) THEN response
                    ELSE Return([RefView |-> response.return])]

\* GenericObservationsAPI.register
register(observation, response) ==
    LET r == [method |-> "POST",
              path |-> GenericObservationsAPI_path,
              json |-> json(observation._data)]
    IN  [http |-> <<r>>,
         result |-> IF Raised(response) THEN response
                    ELSE Return([RefView |-> response.return])]

\* view asking once more when the connector reports an error
view_retries(observation_uuid, response) ==
    LET path == GenericObservationsAPI_path \o <<str_uuid(observation_uuid).str>>
        r == [method |-> "GET", path |-> path]
    IN  [http |-> IF Raised(response) THEN <<r, r>> ELSE <<r>>,
         result |-> IF Raised(response) THEN response
                    ELSE Return([GenericObservationView |-> response.return])]

\* GenericObservationsAPI.view
view(observation_uuid, response) ==
    LET path == GenericObservationsAPI_path \o <<str_uuid(observation_uuid).str>>
        r == [method |-> "GET", path |-> path]
    IN  [http |-> <<r>>,
         result |-> IF Raised(response) THEN response
                    ELSE Return([GenericObservationView |-> response.return])]

\* forecast testing the truth of valuable_facts instead of "is not None"
forecast_drops_false(source_entity_uuid, target_entity_uuid, kind, forecast_at, valuable_facts, response) ==
    LET kebab_kind == convert_relationship_kind_kebab(kind)
        path == RelationshipsAPI_path \o
                    <<str_uuid(source_entity_uuid).str, kebab_kind,
                      str_uuid(target_entity_uuid).str>>
        p0 == EmptyDict
        p1 == IF ~IsNone(forecast_at)
              THEN dict_set(p0, "forecastAt", rfc3339_timestamp(forecast_at))
              ELSE p0
        params == IF ~IsNone(valuable_facts) /\ valuable_facts.bool
                  THEN dict_set(p1, "valuableFacts", valuable_facts)
                  ELSE p1
        r == [method |-> "GET", path |-> path, params |-> params]
    IN  [http |-> <<r>>,
         result |-> IF Raised(response) THEN response
                    ELSE Return([RelationshipsForecastView |-> response.return])]

\* forecast putting the target UUID before the source UUID in the path
forecast_swaps_entities(source_entity_uuid, target_entity_uuid, kind, forecast_at, valuable_facts, response) ==
    LET kebab_kind == convert_relationship_kind_kebab(kind)
        path == RelationshipsAPI_path \o
                    <<str_uuid(target_entity_uuid).str, kebab_kind,
                      str_uuid(source_entity_uuid).str>>
        p0 == EmptyDict
        p1 == IF ~IsNone(forecast_at)
              THEN dict_set(p0, "forecastAt", rfc3339_timestamp(forecast_at))
              ELSE p0
        params == IF ~IsNone(valuable_facts)
                  THEN dict_set(p1, "valuableFacts", valuable_facts)
                  ELSE p1
        r == [method |-> "GET", path |-> path, params |-> params]
    IN  [http |-> <<r>>,
         result |-> IF Raised(response) THEN response
                    ELSE Return([RelationshipsForecastView |-> response.return])]

\* RelationshipsAPI.forecast
forecast(source_entity_uuid, target_entity_uuid, kind, forecast_at, valuable_facts, response) ==
    LET kebab_kind == convert_relationship_kind_kebab(kind)
        path == RelationshipsAPI_path \o
                    <<str_uuid(source_entity_uuid).str, kebab_kind,
                      str_uuid(target_entity_uuid).str>>
        p0 == EmptyDict
        p1 == IF ~IsNone(forecast_at)
              THEN dict_set(p0, "forecastAt", rfc3339_timestamp(forecast_at))
              ELSE p0
        params == IF ~IsNone(valuable_facts)
                  THEN dict_set(p1, "valuableFacts", valuable_facts)
                  ELSE p1
        r == [method |-> "GET", path |-> path, params |-> params]
    IN  [http |-> <<r>>,
         result |-> IF Raised(response) THEN response
                    ELSE Return([RelationshipsForecastView |-> response.return])]

-----------------------------------------------------------------------------
(* Views.  A view object of class K over a document is [K |-> document]; the  *)
(* property operators take the document the view wraps.                        *)

Wrap(cls, doc) == [c \in {cls} |-> doc]
ClassOf(v) == CHOOSE c \in DOMAIN v : TRUE
DataOf(v) == v[ClassOf(v)]

\* JsonObjectView._get: the value of a required key
_get(data, key) ==
    IF key \in DOMAIN data THEN Return(data[key]) ELSE Raise("MissingField")

\* dict.get(key, default)
dict_get(data, key, default) == IF key \in DOMAIN data THEN data[key] ELSE default

\* K(self._get(key)) for a view class K
GetView(data, key, cls) ==
    LET v == _get(data, key)
    IN  IF Raised(v) THEN v ELSE Return(Wrap(cls, v.return))

\* E(self._get(key)) for an enumeration E
GetEnum(data, key, enum) ==
    LET v == _get(data, key)
    IN  IF Raised(v) THEN v ELSE EnumLookup(enum, v.return)

\* float(x)
float(v) ==
    CASE "float" \in DOMAIN v -> Return(v)
      [] "int" \in DOMAIN v -> Return(Float(10 * v.int))
      [] OTHER -> Raise("TypeError")

\* [K(x) for x in items]
MapList(items, cls) == List([i \in 1..Len(items.list) |-> Wrap(cls, items.list[i])])

\* JsonObjectView._map_list_optional: None for a missing or null key
_map_list_optional(data, key, converter) ==
    LET v == dict_get(data, key, None)
    IN  IF IsNone(v) THEN Return(None) ELSE Return(MapList(v, converter))

(* cybsi.api.observable.relationships *)

RelationshipsForecastView_relationship(data) ==
    GetView(data, "relationship", "observable.RelationshipView")

RelationshipsForecastView_confidence(data) == _get(data, "confidence")

\* valuable_facts reading the list as a required one
RelationshipsForecastView_valuable_facts_required(data) ==
    LET v == _get(data, "valuableFacts")
    IN  IF Raised(v) THEN v
        ELSE IF IsNone(v.return) THEN Return(List(<<>>))
        ELSE Return(MapList(v.return, "ValuableFactView"))

RelationshipsForecastView_valuable_facts(data) ==
    _map_list_optional(data, "valuableFacts", "ValuableFactView")

RelationshipView_source(data) == GetView(data, "source", "EntityView")

RelationshipView_kind(data) == GetEnum(data, "kind", RelationshipKinds)

RelationshipView_target(data) == GetView(data, "target", "EntityView")

RelationshipView_confidence(data) ==
    LET v == _get(data, "confidence")
    IN  IF Raised(v) THEN v ELSE float(v.return)

(* cybsi.api.observation.generic *)

GenericObservationView_reporter(data) == GetView(data, "reporter", "RefView")

GenericObservationView_data_source(data) == GetView(data, "dataSource", "RefView")

GenericObservationView_share_level(data) == GetEnum(data, "shareLevel", ShareLevels)

GenericObservationView_seen_at(data) ==
    LET v == _get(data, "seenAt")
    IN  IF Raised(v) THEN v ELSE parse_rfc3339_timestamp(v.return)

GenericObservationView_registered_at(data) ==
    LET v == _get(data, "registeredAt")
    IN  IF Raised(v) THEN v ELSE parse_rfc3339_timestamp(v.return)

GenericObservationView_content(data) ==
    GetView(data, "content", "GenericObservationContentView")

GenericObservationContentView_entity_relationships(data) ==
    LET v == _get(data, "entityRelationships")
    IN  IF Raised(v) THEN v ELSE Return(MapList(v.return, "observation.RelationshipView"))

GenericObservationContentView_entity_attribute_values(data) ==
    LET v == _get(data, "entityAttributeValues")
    IN  IF Raised(v) THEN v ELSE Return(MapList(v.return, "AttributeValueView"))

generic_RelationshipView_source(data) == GetView(data, "source", "EntityView")

generic_RelationshipView_kind(data) == GetEnum(data, "kind", RelationshipKinds)

generic_RelationshipView_target(data) == GetView(data, "target", "EntityView")

generic_RelationshipView_confidence(data) ==
    LET v == _get(data, "confidence")
    IN  IF Raised(v) THEN v ELSE float(v.return)

AttributeValueView_entity(data) == GetView(data, "entity", "EntityView")

AttributeValueView_attribute_name(data) == GetEnum(data, "attributeName", AttributeNames)

AttributeValueView_value(data) == _get(data, "value")

AttributeValueView_confidence(data) ==
    LET v == _get(data, "confidence")
    IN  IF Raised(v) THEN v ELSE float(v.return)

(* legacy cybsi_sdk.client.observations.generic *)

sdk_GenericObservationView_reporter(data) == GetView(data, "reporter", "sdk.RefView")

sdk_GenericObservationView_data_source(data) == GetView(data, "dataSource", "sdk.RefView")

sdk_GenericObservationView_share_level(data) == GetEnum(data, "shareLevel", ShareLevels)

sdk_GenericObservationView_seen_at(data) == _get(data, "seenAt")

sdk_GenericObservationView_registered_at(data) == _get(data, "registeredAt")

sdk_GenericObservationView_content(data) == GetView(data, "content", "sdk._ContentView")

sdk_ContentView_expires_at(data) == Return(dict_get(data, "expiresAt", None))

sdk_ContentView_entity_relationships(data) ==
    Return(MapList(dict_get(data, "entityRelationships", List(<<>>)),
                   "sdk._RelationshipView"))

sdk_ContentView_entity_attribute_values(data) ==
    Return(MapList(dict_get(data, "entityAttributeValues", List(<<>>)),
                   "sdk._AttributeValueView"))

sdk_RelationshipView_source(data) == Return(dict_get(data, "source", None))

sdk_RelationshipView_kind(data) ==
    EnumLookup(RelationshipKinds, dict_get(data, "kind", None))

sdk_RelationshipView_target(data) == Return(dict_get(data, "target", None))

sdk_RelationshipView_confidence(data) == Return(dict_get(data, "confidence", None))

sdk_AttributeValueView_entity(data) == Return(dict_get(data, "entity", None))

sdk_AttributeValueView_attribute_name(data) ==
    Return(dict_get(data, "attributeName", None))

sdk_AttributeValueView_value(data) == Return(dict_get(data, "value", None))

sdk_AttributeValueView_confidence(data) == Return(dict_get(data, "confidence", None))

\* the properties of each view class
Properties(cls) ==
    CASE cls = "RelationshipsForecastView" ->
            {"relationship", "confidence", "valuable_facts"}
      [] cls \in {"observable.RelationshipView", "observation.RelationshipView",
                  "sdk._RelationshipView"} ->
            {"source", "kind", "target", "confidence"}
      [] cls \in {"GenericObservationView", "sdk.GenericObservationView"} ->
            {"reporter", "data_source", "share_level", "seen_at", "registered_at",
             "content"}
      [] cls = "GenericObservationContentView" ->
            {"entity_relationships", "entity_attribute_values"}
      [] cls = "sdk._ContentView" ->
            {"expires_at", "entity_relationships", "entity_attribute_values"}
      [] cls \in {"AttributeValueView", "sdk._AttributeValueView"} ->
            {"entity", "attribute_name", "value", "confidence"}
      [] OTHER -> {}

\* reading the property prop of a view of class cls over the document data
Property(cls, prop, data) ==
    CASE cls = "RelationshipsForecastView" ->
            (CASE prop = "relationship" -> RelationshipsForecastView_relationship(data)
              [] prop = "confidence" -> RelationshipsForecastView_confidence(data)
              [] prop = "valuable_facts" -> RelationshipsForecastView_valuable_facts(data))
      [] cls = "observable.RelationshipView" ->
            (CASE prop = "source" -> RelationshipView_source(data)
              [] prop = "kind" -> RelationshipView_kind(data)
              [] prop = "target" -> RelationshipView_target(data)
              [] prop = "confidence" -> RelationshipView_confidence(data))
      [] cls = "observation.RelationshipView" ->
            (CASE prop = "source" -> generic_RelationshipView_source(data)
              [] prop = "kind" -> generic_RelationshipView_kind(data)
              [] prop = "target" -> generic_RelationshipView_target(data)
              [] prop = "confidence" -> generic_RelationshipView_confidence(data))
      [] cls = "sdk._RelationshipView" ->
            (CASE prop = "source" -> sdk_RelationshipView_source(data)
              [] prop = "kind" -> sdk_RelationshipView_kind(data)
              [] prop = "target" -> sdk_RelationshipView_target(data)
              [] prop = "confidence" -> sdk_RelationshipView_confidence(data))
      [] cls = "GenericObservationView" ->
            (CASE prop = "reporter" -> GenericObservationView_reporter(data)
              [] prop = "data_source" -> GenericObservationView_data_source(data)
              [] prop = "share_level" -> GenericObservationView_share_level(data)
              [] prop = "seen_at" -> GenericObservationView_seen_at(data)
              [] prop = "registered_at" -> GenericObservationView_registered_at(data)
              [] prop = "content" -> GenericObservationView_content(data))
      [] cls = "sdk.GenericObservationView" ->
            (CASE prop = "reporter" -> sdk_GenericObservationView_reporter(data)
              [] prop = "data_source" -> sdk_GenericObservationView_data_source(data)
              [] prop = "share_level" -> sdk_GenericObservationView_share_level(data)
              [] prop = "seen_at" -> sdk_GenericObservationView_seen_at(data)
              [] prop = "registered_at" -> sdk_GenericObservationView_registered_at(data)
              [] prop = "content" -> sdk_GenericObservationView_content(data))
      [] cls = "GenericObservationContentView" ->
            (CASE prop = "entity_relationships" ->
                    GenericObservationContentView_entity_relationships(data)
              [] prop = "entity_attribute_values" ->
                    GenericObservationContentView_entity_attribute_values(data))
      [] cls = "sdk._ContentView" ->
            (CASE prop = "expires_at" -> sdk_ContentView_expires_at(data)
              [] prop = "entity_relationships" ->
                    sdk_ContentView_entity_relationships(data)
              [] prop = "entity_attribute_values" ->
                    sdk_ContentView_entity_attribute_values(data))
      [] cls = "AttributeValueView" ->
            (CASE prop = "entity" -> AttributeValueView_entity(data)
              [] prop = "attribute_name" -> AttributeValueView_attribute_name(data)
              [] prop = "value" -> AttributeValueView_value(data)
              [] prop = "confidence" -> AttributeValueView_confidence(data))
      [] cls = "sdk._AttributeValueView" ->
            (CASE prop = "entity" -> sdk_AttributeValueView_entity(data)
              [] prop = "attribute_name" -> sdk_AttributeValueView_attribute_name(data)
              [] prop = "value" -> sdk_AttributeValueView_value(data)
              [] prop = "confidence" -> sdk_AttributeValueView_confidence(data))

ViewClasses ==
    {"RelationshipsForecastView", "observable.RelationshipView",
     "observation.RelationshipView", "sdk._RelationshipView",
     "GenericObservationView", "sdk.GenericObservationView",
     "GenericObservationContentView", "sdk._ContentView",
     "AttributeValueView", "sdk._AttributeValueView",
     "EntityView", "ValuableFactView", "RefView", "sdk.RefView"}

IsView(v) == DOMAIN v # {} /\ DOMAIN v \subseteq ViewClasses
IsList(v) == DOMAIN v = {"list"}

-----------------------------------------------------------------------------
(* Inputs of the model *)

ApiForm == 1        \* a cybsi.api GenericObservationForm
SdkForm == 2        \* a legacy cybsi_sdk GenericObservationForm
FormIds == {ApiForm, SdkForm}

Domain == EntityForm("DomainName", "String", "test.com")
IPAddress == EntityForm("IPAddress", "String", "8.8.8.8")

\* the arguments of the constructor calls
Constructions ==
    { [share_level |-> EnumMember(ShareLevels, "Green"),
       seen_at |-> DateTime("2021-12-24T17:50:08", 180)],
      [share_level |-> EnumMember(ShareLevels, "White"),
       seen_at |-> DateTime("2021-12-24T14:50:08", 0)] }

\* the arguments of the constructor calls of the legacy form
SdkConstructions ==
    { [share_level |-> EnumMember(ShareLevels, "Green"),
       seen_at |-> DateTime("2021-12-24T17:50:08", 180)],
      [share_level |-> EnumMember(ShareLevels, "White"),
       seen_at |-> NaiveDateTime("2021-12-24T14:50:08")] }

DataSources == { UUID(3) }

AttributeFactInputs ==
    { [entity |-> UUID(1), attribute_name |-> EnumMember(AttributeNames, "IsIoC"),
       value |-> Bool(TRUE), confidence |-> None],
      [entity |-> IPAddress, attribute_name |-> EnumMember(AttributeNames, "IsMalicious"),
       value |-> Bool(FALSE), confidence |-> None],
      [entity |-> Domain, attribute_name |-> EnumMember(AttributeNames, "IsIoC"),
       value |-> Bool(TRUE), confidence |-> Float(9)] }

RelationshipInputs ==
    { [source |-> Domain, kind |-> EnumMember(RelationshipKinds, "Resolves"),
       target |-> IPAddress, confidence |-> Float(5)],
      [source |-> UUID(1), kind |-> EnumMember(RelationshipKinds, "ResolvesTo"),
       target |-> UUID(2), confidence |-> None],
      [source |-> UUID(1), kind |-> EnumMember(RelationshipKinds, "Resolves"),
       target |-> IPAddress, confidence |-> None],
      [source |-> Domain, kind |-> EnumMember(RelationshipKinds, "ResolvesTo"),
       target |-> UUID(2), confidence |-> Float(9)] }

\* answers of the server to POST /enrichment/observations/generics
RegisterResponses ==
    { Return([uuid |-> str_uuid(UUID(3))]),
      Raise("SemanticError") }

NoCalls == [eav |-> <<>>, rel |-> <<>>, raised |-> FALSE]
NoCall == [op |-> "none"]
NoView == [none |-> TRUE]

TotalFacts == Len(calls[ApiForm].eav) + Len(calls[ApiForm].rel)
              + Len(calls[SdkForm].eav) + Len(calls[SdkForm].rel)

-----------------------------------------------------------------------------
(* Building forms *)

InitForm ==
    /\ \E c \in Constructions :
          /\ forms = [o \in FormIds |->
                       IF o = ApiForm
                       THEN [id |-> o, cls |-> "cybsi.api",
                             _data |-> GenericObservationForm(c.share_level, c.seen_at)]
                       ELSE [id |-> o, cls |-> "cybsi_sdk",
                             _data |-> sdk_GenericObservationForm(c.share_level,
                                                                  c.seen_at)]]
          /\ made = [o \in FormIds |-> c]
    /\ calls = [o \in FormIds |-> NoCalls]
    /\ last = NoCall
    /\ sent = <<>>
    /\ http = <<>>
    /\ result = None
    /\ held = NoView
    /\ read = None

\* the effect of a builder call on the heap and on the histories
Called(op, self, args, out, log) ==
    /\ forms' = [forms EXCEPT ![self]._data = out._data]
    /\ made' = made
    /\ last' = [op |-> op, self |-> self, args |-> args, ret |-> out.ret]
    /\ calls' = CASE log = "none" -> calls
                  [] Raised(out.ret) -> [calls EXCEPT ![self].raised = TRUE]
                  [] OTHER -> [calls EXCEPT ![self][log] = Append(@, args)]
    /\ sent' = <<>>
    /\ http' = <<>>
    /\ result' = None
    /\ held' = NoView
    /\ read' = None

SetDataSource ==
    \E source_uuid \in DataSources :
        Called("set_data_source", ApiForm, [source_uuid |-> source_uuid],
               set_data_source(forms[ApiForm], source_uuid), "none")

AddAttributeFact ==
    /\ TotalFacts < MaxFacts
    /\ \E a \in AttributeFactInputs :
        Called("add_attribute_fact", ApiForm, a,
               add_attribute_fact(forms[ApiForm], a.entity, a.attribute_name,
                                  a.value, a.confidence), "eav")

AddEntityRelationship ==
    /\ TotalFacts < MaxFacts
    /\ \E r \in RelationshipInputs :
        Called("add_entity_relationship", ApiForm, r,
               add_entity_relationship(forms[ApiForm], r.source, r.kind,
                                       r.target, r.confidence), "rel")

SdkSetDataSource ==
    \E source_uuid \in DataSources :
        Called("set_data_source", SdkForm, [source_uuid |-> source_uuid],
               sdk_set_data_source(forms[SdkForm], source_uuid), "none")

SdkAddAttributeFact ==
    /\ TotalFacts < MaxFacts
    /\ \E a \in AttributeFactInputs :
        Called("add_attribute_fact", SdkForm, a,
               sdk_add_attribute_fact(forms[SdkForm], a.entity, a.attribute_name,
                                      a.value, a.confidence), "eav")

\* register: the form is serialized and posted; the form is not changed
Register ==
    /\ Len(sent) < MaxSends
    /\ \E response \in RegisterResponses :
        LET out == register(forms[ApiForm], response)
        IN  /\ http' = out.http
            /\ result' = out.result
            /\ sent' = sent \o [i \in 1..Len(out.http) |-> out.http[i].json]
            /\ last' = [op |-> "register", self |-> ApiForm,
                        args |-> [observation |-> ApiForm], answer |-> response,
                        ret |-> out.result]
            /\ held' = IF Raised(out.result) THEN NoView ELSE out.result.return
            /\ read' = None
            /\ UNCHANGED <<forms, made, calls>>

NextForm ==
    \/ SetDataSource
    \/ AddAttributeFact
    \/ AddEntityRelationship
    \/ SdkSetDataSource
    \/ SdkAddAttributeFact
    \/ Register

SpecForm == InitForm /\ [][NextForm]_vars

-----------------------------------------------------------------------------
(* Documents the server answers with *)

DomainEntity ==
    [type |-> Str("DomainName"),
     url |-> Str("http://.../66fd82a1-c35c-424e-986c-133054bd7797"),
     uuid |-> Str("66fd82a1-c35c-424e-986c-133054bd7797"),
     keys |-> List(<<[type |-> Str("String"), value |-> Str("test.com")]>>)]

IPAddressEntity ==
    [type |-> Str("IPAddress"),
     url |-> Str("http://.../40a13d3f-96d2-4c85-acc5-5657f2ecb69d"),
     uuid |-> Str("40a13d3f-96d2-4c85-acc5-5657f2ecb69d"),
     keys |-> List(<<[type |-> Str("String"), value |-> Str("8.8.8.8")]>>)]

\* relationship documents with the keys the views read
RelationshipDocs ==
    { [source |-> DomainEntity, kind |-> Str("ResolvesTo"),
       target |-> IPAddressEntity, confidence |-> Float(5)],
      [source |-> IPAddressEntity, kind |-> Str("Resolves"),
       target |-> DomainEntity, confidence |-> Integer(1)] }

\* relationship documents lacking keys, or with a kind outside the vocabulary
OddRelationshipDocs ==
    { [kind |-> Str("Resolves")],
      [confidence |-> Float(5)],
      [source |-> DomainEntity, kind |-> Str("NotAKind"),
       target |-> IPAddressEntity, confidence |-> Float(5)] }

\* the relationship of the forecast printed in examples/get_forecasts.py
DocumentedRelationship ==
    [sourceEntity |-> DomainEntity, relationKind |-> Str("ResolvesTo"),
     targetEntity |-> IPAddressEntity]

ValuableFact1 == [shareLevel |-> Str("Green"), confidence |-> Float(9), value |-> Bool(TRUE)]
ValuableFact2 == [shareLevel |-> Str("White"), confidence |-> Float(5), value |-> Bool(TRUE)]

ValuableFactLists ==
    { List(<<>>), List(<<ValuableFact1>>), List(<<ValuableFact1, ValuableFact2>>) }

\* the forecast printed in examples/get_forecasts.py
DocumentedForecast ==
    [relationship |-> DocumentedRelationship, confidence |-> Float(5),
     valuableFacts |-> None]

ForecastDocs ==
    { [relationship |-> r, confidence |-> Float(5)] : r \in RelationshipDocs }
    \cup { [relationship |-> r, confidence |-> Float(5), valuableFacts |-> v] :
             r \in {CHOOSE d \in RelationshipDocs : d.kind = Str("ResolvesTo")},
             v \in ValuableFactLists \cup {None} }
    \cup { DocumentedForecast }
    \cup { [relationship |-> r, confidence |-> Float(5)] : r \in OddRelationshipDocs }

AttributeValueDocs ==
    { [entity |-> DomainEntity, attributeName |-> Str("IsIoC"),
       value |-> Bool(TRUE), confidence |-> Float(9)] }

\* attribute value documents lacking keys, or with a name outside the vocabulary
OddAttributeValueDocs ==
    { [value |-> Bool(TRUE)],
      [entity |-> DomainEntity, attributeName |-> Str("NotAnAttribute"),
       value |-> Bool(TRUE), confidence |-> Float(9)] }

\* observation documents lacking keys, with a share level outside the
\* vocabulary, with a timestamp of another zone, or holding the documents above
OddObservationDocs ==
    { [content |-> EmptyDict] } \cup
    { [shareLevel |-> Str("NotAShareLevel"),
       seenAt |-> Str("2021-12-24T14:50:08+00:00"),
       registeredAt |-> Str("2021-12-24T17:50:08"),
       content |-> [entityRelationships |-> List(<<r>>),
                    entityAttributeValues |-> List(<<a>>)]] :
        r \in OddRelationshipDocs, a \in OddAttributeValueDocs }

ObservationDocs ==
    OddObservationDocs \cup
    { [reporter |-> [uuid |-> str_uuid(UUID(1))],
       dataSource |-> [uuid |-> str_uuid(UUID(2))],
       shareLevel |-> Str("Green"),
       seenAt |-> Str("2021-12-24T17:50:08+03:00"),
       registeredAt |-> Str("2021-12-24T17:50:08+03:00"),
       content |-> [entityRelationships |-> List(rels),
                    entityAttributeValues |-> List(attrs)]] :
        rels \in {<<>>} \cup {<<r>> : r \in RelationshipDocs},
        attrs \in {<<>>} \cup {<<a>> : a \in AttributeValueDocs} }

Errors == { Raise("NotFoundError"), Raise("SemanticError"), Raise("ConnectionError") }

ViewResponses == { Return(d) : d \in ObservationDocs } \cup Errors
ForecastResponses == { Return(d) : d \in ForecastDocs } \cup Errors

EntityUUIDs == { UUID(1), UUID(2) }
ForecastAts == { None, DateTime("2021-12-24T17:50:08", 180) }
ValuableFactsFlags == { None, Bool(TRUE), Bool(FALSE) }

-----------------------------------------------------------------------------
(* Calling the endpoints and reading the views they return *)

\* the form object after a method call on it
After(self, out) == [self EXCEPT !._data = out._data]

\* the chain of examples/register_generic.py
create_generic_observation ==
    LET f0 == [id |-> ApiForm, cls |-> "cybsi.api",
               _data |-> GenericObservationForm(EnumMember(ShareLevels, "Green"),
                                                DateTime("2021-12-24T14:50:08", 0))]
        f1 == After(f0, add_attribute_fact(f0, Domain,
                            EnumMember(AttributeNames, "IsIoC"), Bool(TRUE), Float(9)))
        f2 == After(f1, add_attribute_fact(f1, Domain,
                            EnumMember(AttributeNames, "IsMalicious"), Bool(TRUE), Float(9)))
    IN  After(f2, add_entity_relationship(f2, Domain,
                            EnumMember(RelationshipKinds, "Resolves"), IPAddress, Float(5)))

InitClient ==
    /\ forms = [o \in FormIds |->
                  IF o = ApiForm
                  THEN create_generic_observation
                  ELSE [id |-> o, cls |-> "cybsi_sdk",
                        _data |-> sdk_GenericObservationForm(
                                      EnumMember(ShareLevels, "Green"),
                                      DateTime("2021-12-24T17:50:08", 180))]]
    /\ made = [o \in FormIds |->
                 IF o = ApiForm
                 THEN [share_level |-> EnumMember(ShareLevels, "Green"),
                       seen_at |-> DateTime("2021-12-24T14:50:08", 0)]
                 ELSE [share_level |-> EnumMember(ShareLevels, "Green"),
                       seen_at |-> DateTime("2021-12-24T17:50:08", 180)]]
    /\ calls = [o \in FormIds |->
                  IF o = ApiForm
                  THEN [eav |-> <<[entity |-> Domain,
                                   attribute_name |-> EnumMember(AttributeNames, "IsIoC"),
                                   value |-> Bool(TRUE), confidence |-> Float(9)],
                                  [entity |-> Domain,
                                   attribute_name |-> EnumMember(AttributeNames, "IsMalicious"),
                                   value |-> Bool(TRUE), confidence |-> Float(9)]>>,
                        rel |-> <<[source |-> Domain,
                                   kind |-> EnumMember(RelationshipKinds, "Resolves"),
                                   target |-> IPAddress, confidence |-> Float(5)]>>,
                        raised |-> FALSE]
                  ELSE NoCalls]
    /\ last = NoCall
    /\ sent = <<>>
    /\ http = <<>>
    /\ result = None
    /\ held = NoView
    /\ read = None

\* the effect of an endpoint invocation
Invoked(op, args, response, out) ==
    /\ http' = out.http
    /\ result' = out.result
    /\ last' = [op |-> op, args |-> args, answer |-> response, ret |-> out.result]
    /\ held' = IF Raised(out.result) THEN NoView ELSE out.result.return
    /\ read' = None
    /\ UNCHANGED <<forms, made, calls, sent>>

View ==
    \E observation_uuid \in EntityUUIDs, response \in ViewResponses :
        Invoked("view", [observation_uuid |-> observation_uuid], response,
                view(observation_uuid, response))

Forecast ==
    \E source \in EntityUUIDs :
    \E target \in EntityUUIDs \ {source}, kind \in RelationshipKinds,
       forecast_at \in ForecastAts, valuable_facts \in ValuableFactsFlags,
       response \in ForecastResponses :
        Invoked("forecast",
                [source_entity_uuid |-> source, target_entity_uuid |-> target,
                 kind |-> kind, forecast_at |-> forecast_at,
                 valuable_facts |-> valuable_facts],
                response,
                forecast(source, target, kind, forecast_at, valuable_facts, response))

\* the caller constructs a new legacy form
SdkConstruct ==
    \E s \in SdkConstructions :
        /\ forms' = [forms EXCEPT ![SdkForm]._data =
                        sdk_GenericObservationForm(s.share_level, s.seen_at)]
        /\ made' = [made EXCEPT ![SdkForm] = s]
        /\ calls' = [calls EXCEPT ![SdkForm] = NoCalls]
        /\ last' = [op |-> "GenericObservationForm", self |-> SdkForm, args |-> s,
                    ret |-> Return(SdkForm)]
        /\ http' = <<>>
        /\ result' = None
        /\ held' = NoView
        /\ read' = None
        /\ UNCHANGED sent

\* a legacy view, which no endpoint of the repository returns, is constructed
\* over a response document by its caller
Construct ==
    \E doc \in ObservationDocs :
        /\ held' = Wrap("sdk.GenericObservationView", doc)
        /\ last' = [op |-> "construct", args |-> [data |-> doc],
                    ret |-> Return(held')]
        /\ http' = <<>>
        /\ result' = None
        /\ read' = None
        /\ UNCHANGED <<forms, made, calls, sent>>

\* reading a property of the held view, of class cls
ReadOn(cls) ==
    /\ ClassOf(held) = cls
    /\ \E prop \in Properties(cls) :
          read' = [prop |-> prop, val |-> Property(cls, prop, DataOf(held))]
    /\ last' = NoCall
    /\ http' = <<>>
    /\ result' = None
    /\ UNCHANGED <<forms, made, calls, sent, held>>

ReadForecastView == ReadOn("RelationshipsForecastView")
ReadRelationshipView == ReadOn("observable.RelationshipView")
ReadGenericObservationView == ReadOn("GenericObservationView")
ReadContentView == ReadOn("GenericObservationContentView")
ReadGenericRelationshipView == ReadOn("observation.RelationshipView")
ReadAttributeValueView == ReadOn("AttributeValueView")
ReadSdkGenericObservationView == ReadOn("sdk.GenericObservationView")
ReadSdkContentView == ReadOn("sdk._ContentView")
ReadSdkRelationshipView == ReadOn("sdk._RelationshipView")
ReadSdkAttributeValueView == ReadOn("sdk._AttributeValueView")

\* the caller goes on with the view, or an element of the list of views, that
\* the latest read returned
Descend ==
    /\ "val" \in DOMAIN read
    /\ ~Raised(read.val)
    /\ \/ IsView(read.val.return) /\ held' = read.val.return
       \/ /\ IsList(read.val.return)
          /\ \E i \in 1..Len(read.val.return.list) :
                /\ IsView(read.val.return.list[i])
                /\ held' = read.val.return.list[i]
    /\ read' = None
    /\ last' = NoCall
    /\ http' = <<>>
    /\ result' = None
    /\ UNCHANGED <<forms, made, calls, sent>>

NextClient ==
    \/ Register
    \/ View
    \/ Forecast
    \/ SdkConstruct
    \/ Construct
    \/ ReadForecastView
    \/ ReadRelationshipView
    \/ ReadGenericObservationView
    \/ ReadContentView
    \/ ReadGenericRelationshipView
    \/ ReadAttributeValueView
    \/ ReadSdkGenericObservationView
    \/ ReadSdkContentView
    \/ ReadSdkRelationshipView
    \/ ReadSdkAttributeValueView
    \/ Descend

SpecClient == InitClient /\ [][NextClient]_vars

-----------------------------------------------------------------------------
(* Properties of the forms *)

\* the record an entity argument stands for: {"uuid": <uuid string>} for a
\* UUID, the entity form's own document for an entity form
Recorded(entity) ==
    IF IsUUID(entity) THEN [uuid |-> str_uuid(entity)] ELSE entity.EntityForm

\* the fact records the arguments of an add_* call stand for
AttributeFact(a) ==
    [entity |-> Recorded(a.entity), attributeName |-> Str(a.attribute_name.value),
     value |-> a.value, confidence |-> a.confidence]
RelationshipFact(r) ==
    [source |-> Recorded(r.source), kind |-> Str(r.kind.value),
     target |-> Recorded(r.target), confidence |-> r.confidence]

\* the facts a serialized form lists under a key of its content (none when the
\* content or the key is missing)
Listed(o, key) ==
    LET d == json(forms[o]._data)
    IN  IF "content" \in DOMAIN d /\ key \in DOMAIN d.content
        THEN d.content[key].list
        ELSE <<>>

\* C1: the serialized form lists exactly the attribute facts and the
\* relationships of the add_* calls made on it, each list in call order: no
\* fact is dropped, duplicated or reordered.  A list nothing was added to has
\* no entry (its key may be missing from the content).
FactsInCallOrder ==
    \A o \in FormIds :
        /\ Listed(o, "entityAttributeValues")
             = [i \in 1..Len(calls[o].eav) |-> AttributeFact(calls[o].eav[i])]
        /\ Listed(o, "entityRelationships")
             = [i \in 1..Len(calls[o].rel) |-> RelationshipFact(calls[o].rel[i])]

\* C1 witness: add_attribute_fact(A), add_attribute_fact(B) with A # B and
\* add_entity_relationship(C) have been called on the cybsi.api form
TwoFactsOneRelationship ==
    /\ Len(calls[ApiForm].eav) = 2
    /\ calls[ApiForm].eav[1] # calls[ApiForm].eav[2]
    /\ Len(calls[ApiForm].rel) = 1

\* C2: the serialized form always has a "content" key, and it holds an empty
\* document as long as no add_* method has been called on the form.
ContentKeyNeverMissing ==
    \A o \in FormIds :
        /\ "content" \in DOMAIN json(forms[o]._data)
        /\ (calls[o] = NoCalls => json(forms[o]._data).content = EmptyDict)

\* C3: every body register has posted since the form was last mutated is the
\* same document, the one the form serializes to now: serializing neither
\* consumes nor changes the form.
SerializationIdempotent ==
    \A i \in 1..Len(sent) : sent[i] = json(forms[ApiForm]._data)

\* C3 witness: a form with facts has been registered twice in a row
RegisteredTwice ==
    /\ Len(sent) = 2
    /\ Len(calls[ApiForm].eav) > 0
    /\ Len(calls[ApiForm].rel) > 0

BuilderOps == {"set_data_source", "add_attribute_fact", "add_entity_relationship"}

\* C4: a builder call that returns gives back the form it was called on, and
\* that form carries the mutation of this call and of all the calls before it.
BuildersReturnSelf ==
    (last.op \in BuilderOps /\ ~Raised(last.ret)) =>
        /\ last.ret.return = last.self
        /\ LET o == last.ret.return
               d == forms[o]._data
           IN  /\ last.op = "set_data_source" =>
                      d.dataSourceUUID = str_uuid(last.args.source_uuid)
               /\ last.op = "add_attribute_fact" =>
                      /\ Len(calls[o].eav) = Len(d.content.entityAttributeValues.list)
                      /\ d.content.entityAttributeValues.list[Len(calls[o].eav)]
                           = AttributeFact(last.args)
               /\ last.op = "add_entity_relationship" =>
                      /\ Len(calls[o].rel) = Len(d.content.entityRelationships.list)
                      /\ d.content.entityRelationships.list[Len(calls[o].rel)]
                           = RelationshipFact(last.args)

\* C4 witness: set_data_source has returned at the end of a chain that added
\* an attribute fact and a relationship
ChainEndsWithDataSource ==
    /\ last.op = "set_data_source"
    /\ last.self = ApiForm
    /\ ~Raised(last.ret)
    /\ Len(calls[ApiForm].eav) > 0
    /\ Len(calls[ApiForm].rel) > 0

\* the entity positions of an add_* call's arguments
EntityPositions(op) ==
    IF op = "add_attribute_fact" THEN {"entity"} ELSE {"source", "target"}

\* the record the latest add_* call appended to its list
Appended ==
    LET c == forms[last.self]._data.content
        l == IF last.op = "add_attribute_fact"
             THEN c.entityAttributeValues.list
             ELSE c.entityRelationships.list
    IN  l[Len(l)]

\* C5 as stated: every add_* call, on either generation of the form, accepts a
\* UUID or an entity form in each entity position and records {"uuid": <uuid
\* string>} for a UUID and the form's document for an entity form.
EveryAddAcceptsUUIDOrForm ==
    last.op \in {"add_attribute_fact", "add_entity_relationship"} =>
        /\ ~Raised(last.ret)
        /\ \A p \in EntityPositions(last.op) : Appended[p] = Recorded(last.args[p])

\* C5 amended: the add_* methods of the cybsi.api form accept a UUID or an
\* entity form in each entity position, independently, and record {"uuid":
\* <uuid string>} or the form's document; the legacy add_attribute_fact does so
\* for an entity form only: given a UUID it raises and appends nothing.
ApiAddAcceptsUUIDOrForm ==
    last.op \in {"add_attribute_fact", "add_entity_relationship"} =>
        IF last.self = ApiForm \/ ~IsUUID(last.args.entity)
        THEN /\ ~Raised(last.ret)
             /\ \A p \in EntityPositions(last.op) :
                    Appended[p] = Recorded(last.args[p])
        ELSE /\ Raised(last.ret)
             /\ Len(Listed(last.self, "entityAttributeValues"))
                  = Len(calls[last.self].eav)

\* C5 witness: a relationship from a UUID to an entity form has been added
UUIDToFormRelationship ==
    /\ last.op = "add_entity_relationship"
    /\ ~Raised(last.ret)
    /\ IsUUID(last.args.source)
    /\ ~IsUUID(last.args.target)

-----------------------------------------------------------------------------
(* Properties of the endpoints and of the views *)

\* C6: forecast sends forecastAt exactly when forecast_at was given and
\* valuableFacts exactly when valuable_facts was given, an explicit False
\* included and sent as False; it sends no other query parameter, so none at
\* all when neither was given.
ForecastParamsAsSupplied ==
    last.op = "forecast" =>
        /\ Len(http) > 0
        /\ \A i \in 1..Len(http) :
            LET params == http[i].params
            IN  /\ DOMAIN params \subseteq {"forecastAt", "valuableFacts"}
                /\ "forecastAt" \in DOMAIN params <=> ~IsNone(last.args.forecast_at)
                /\ "valuableFacts" \in DOMAIN params <=> ~IsNone(last.args.valuable_facts)
                /\ "valuableFacts" \in DOMAIN params =>
                       params.valuableFacts = last.args.valuable_facts

\* C6 witness: forecast called with valuable_facts=False and no forecast_at
ForecastWithExplicitFalse ==
    /\ last.op = "forecast"
    /\ last.args.valuable_facts = Bool(FALSE)
    /\ IsNone(last.args.forecast_at)

\* the kebab-case text of a relationship kind
KebabCase(kind) == IF kind.name = "ResolvesTo" THEN "resolves-to" ELSE "resolves"

\* C7: forecast requests /observable/relationships/<source>/<kebab kind>/<target>,
\* view requests /enrichment/observations/generics/<uuid> and register posts
\* to /enrichment/observations/generics.
EndpointPaths ==
    /\ last.op \in {"forecast", "view", "register"} => Len(http) > 0
    /\ \A i \in 1..Len(http) :
        /\ last.op = "forecast" =>
              /\ http[i].method = "GET"
              /\ http[i].path = <<"observable", "relationships",
                                  str_uuid(last.args.source_entity_uuid).str,
                                  KebabCase(last.args.kind),
                                  str_uuid(last.args.target_entity_uuid).str>>
        /\ last.op = "view" =>
              /\ http[i].method = "GET"
              /\ http[i].path = <<"enrichment", "observations", "generics",
                                  str_uuid(last.args.observation_uuid).str>>
        /\ last.op = "register" =>
              /\ http[i].method = "POST"
              /\ http[i].path = <<"enrichment", "observations", "generics">>

\* C7 witness: a ResolvesTo forecast from entity 1 to entity 2 has been requested
ResolvesToForecastRequested ==
    /\ last.op = "forecast"
    /\ last.args.kind.name = "ResolvesTo"
    /\ http[1].path = <<"observable", "relationships",
                        "00000000-0000-0000-0000-000000000001", "resolves-to",
                        "00000000-0000-0000-0000-000000000002">>

\* the latest operation read the property prop of a view of class cls
ReadOf(cls, prop) ==
    /\ "prop" \in DOMAIN read
    /\ read.prop = prop
    /\ ClassOf(held) = cls

\* C8: the forecast body documented in examples/get_forecasts.py decodes into
\* a RelationshipsForecastView whose relationship has kind ResolvesTo and has
\* the nested entity views of the body as source and target.
DocumentedForecastDecodes ==
    /\ (ReadOf("RelationshipsForecastView", "relationship")
            /\ DataOf(held) = DocumentedForecast) =>
          read.val = Return(Wrap("observable.RelationshipView", DocumentedRelationship))
    /\ (ClassOf(held) = "observable.RelationshipView"
            /\ DataOf(held) = DocumentedRelationship /\ "prop" \in DOMAIN read) =>
          /\ read.prop = "kind" =>
                read.val = Return(EnumMember(RelationshipKinds, "ResolvesTo"))
          /\ read.prop = "source" =>
                read.val = Return(Wrap("EntityView", DomainEntity))
          /\ read.prop = "target" =>
                read.val = Return(Wrap("EntityView", IPAddressEntity))

RelationshipViewClasses ==
    {"observable.RelationshipView", "observation.RelationshipView",
     "sdk._RelationshipView"}

\* C9: a relationship view over a document {kind, confidence, source, target}
\* gives kind as the RelationshipKinds member of the wire string, confidence
\* as a float equal to the wire number, and source and target as entity views
\* over the sub-documents, in every relationship view class.
RelationshipViewsTyped ==
    (ClassOf(held) \in RelationshipViewClasses
        /\ DataOf(held) \in RelationshipDocs /\ "prop" \in DOMAIN read) =>
        LET d == DataOf(held)
        IN  /\ read.prop = "kind" =>
                  /\ ~Raised(read.val)
                  /\ read.val.return \in RelationshipKinds
                  /\ read.val.return.name = d.kind.str
            /\ read.prop = "confidence" =>
                  /\ ~Raised(read.val)
                  /\ DOMAIN read.val.return = {"float"}
                  /\ read.val.return.float =
                        (IF "int" \in DOMAIN d.confidence
                         THEN 10 * d.confidence.int ELSE d.confidence.float)
            /\ read.prop = "source" =>
                  read.val = Return(Wrap("EntityView", d.source))
            /\ read.prop = "target" =>
                  read.val = Return(Wrap("EntityView", d.target))

\* C10: valuable_facts gives None for a document without valuableFacts or
\* with valuableFacts: null, an empty list for valuableFacts: [], and one
\* ValuableFactView per element, in the document's order, otherwise.
ValuableFactsThreeWay ==
    ReadOf("RelationshipsForecastView", "valuable_facts") =>
        LET d == DataOf(held)
        IN  IF "valuableFacts" \notin DOMAIN d \/ IsNone(d.valuableFacts)
            THEN read.val = Return(None)
            ELSE /\ ~Raised(read.val)
                 /\ IsList(read.val.return)
                 /\ Len(read.val.return.list) = Len(d.valuableFacts.list)
                 /\ \A i \in 1..Len(d.valuableFacts.list) :
                        read.val.return.list[i]
                          = Wrap("ValuableFactView", d.valuableFacts.list[i])

\* C10 witness: valuable_facts has been read over a document listing two
\* different valuable facts
TwoValuableFactsRead ==
    /\ ReadOf("RelationshipsForecastView", "valuable_facts")
    /\ "valuableFacts" \in DOMAIN DataOf(held)
    /\ ~IsNone(DataOf(held).valuableFacts)
    /\ Len(DataOf(held).valuableFacts.list) = 2
    /\ DataOf(held).valuableFacts.list[1] # DataOf(held).valuableFacts.list[2]

-----------------------------------------------------------------------------
(* Properties of the decoding *)

\* the document key behind a view property
KeyOf(prop) ==
    CASE prop = "reporter" -> "reporter"
      [] prop = "data_source" -> "dataSource"
      [] prop = "share_level" -> "shareLevel"
      [] prop = "seen_at" -> "seenAt"
      [] prop = "registered_at" -> "registeredAt"
      [] prop = "content" -> "content"
      [] prop = "entity_relationships" -> "entityRelationships"
      [] prop = "entity_attribute_values" -> "entityAttributeValues"
      [] prop = "kind" -> "kind"
      [] prop = "source" -> "source"
      [] prop = "target" -> "target"
      [] prop = "confidence" -> "confidence"
      [] prop = "attribute_name" -> "attributeName"
      [] prop = "value" -> "value"
      [] OTHER -> "-"

RequiredProps ==
    {"reporter", "data_source", "share_level", "seen_at", "registered_at",
     "content", "entity_relationships", "entity_attribute_values", "kind",
     "source", "target", "confidence", "attribute_name", "value"}

\* the latest operation read a property, among props, of the held view
ReadAmong(props) == "prop" \in DOMAIN read /\ read.prop \in props

\* C11: constructing a view over a document never fails, whatever the
\* document, and reading a required field whose key the document lacks fails
\* with MissingField at that read, in every view class: no default and no
\* absent value is returned.
MissingFieldsFail ==
    /\ last.op = "construct" => ~Raised(last.ret)
    /\ (last.op \in {"view", "forecast"} /\ ~Raised(last.answer)) =>
          ~Raised(last.ret)
    /\ (ReadAmong(RequiredProps) /\ KeyOf(read.prop) \notin DOMAIN DataOf(held)) =>
          read.val = Raise("MissingField")

\* the enumeration behind an enum-typed view property
EnumOf(prop) ==
    CASE prop = "kind" -> RelationshipKinds
      [] prop = "attribute_name" -> AttributeNames
      [] prop = "share_level" -> ShareLevels

EnumProps == {"kind", "attribute_name", "share_level"}

\* C12: decoding the wire string of a member gives that member, for every
\* member of every enumeration, and an enum-typed view field gives the member
\* whose wire string the document holds, or fails with UnknownEnumValue when
\* the string is outside the vocabulary, in every view class.
EnumsRoundTrip ==
    /\ \A enum \in {ShareLevels, AttributeNames, RelationshipKinds, ObservationTypes} :
          \A m \in enum : EnumLookup(enum, Str(m.value)) = Return(m)
    /\ (ReadAmong(EnumProps) /\ KeyOf(read.prop) \in DOMAIN DataOf(held)) =>
          LET wire == DataOf(held)[KeyOf(read.prop)]
              enum == EnumOf(read.prop)
          IN  IF \E m \in enum : Str(m.value) = wire
              THEN read.val = Return(CHOOSE m \in enum : Str(m.value) = wire)
              ELSE read.val = Raise("UnknownEnumValue")

\* the texts with a date, a time and an explicit numeric offset
ExplicitOffsetTexts ==
    { Concat(w, o) : w \in {"2021-12-24T17:50:08", "2021-12-24T14:50:08"},
                     o \in {"+03:00", "+00:00"} }

\* C13: the seenAt text a form of either generation writes for its timestamp
\* is RFC3339 with an explicit offset, and GenericObservationView.seen_at over
\* a document holding that text gives the timestamp the form was constructed
\* with, offset included.
TimestampsRoundTrip ==
    \A o \in FormIds :
        LET text == forms[o]._data.seenAt
        IN  /\ text.str \in ExplicitOffsetTexts
            /\ GenericObservationView_seen_at([seenAt |-> text])
                 = Return(made[o].seen_at)
            /\ (ReadOf("GenericObservationView", "seen_at")
                    /\ "seenAt" \in DOMAIN DataOf(held)
                    /\ DataOf(held).seenAt = text) =>
                  read.val = Return(made[o].seen_at)

EndpointOps == {"register", "view", "forecast"}

\* C14: an endpoint invocation makes exactly one HTTP call; when the connector
\* reports an error, that error is what the caller gets and no view is
\* returned; otherwise the caller gets a view over the answered document.
OneCallErrorsPropagate ==
    last.op \in EndpointOps =>
        /\ Len(http) = 1
        /\ last.ret = result
        /\ IF Raised(last.answer)
           THEN result = last.answer /\ held = NoView
           ELSE /\ ~Raised(result)
                /\ held = result.return
                /\ IsView(held)
                /\ DataOf(held) = last.answer.return

\* C14 witness: view has been answered with NotFoundError
NotFoundOnView ==
    /\ last.op = "view"
    /\ last.answer = Raise("NotFoundError")
    /\ result = Raise("NotFoundError")

\* the facts a form document lists under a key of its content
ListedIn(d, key) ==
    IF "content" \in DOMAIN d /\ key \in DOMAIN d.content
    THEN d.content[key].list
    ELSE <<>>

\* the value of a key of a document, None standing for a missing key
ValueIn(d, key) == IF key \in DOMAIN d THEN d[key] ELSE None

\* new is old with exactly one record appended
OneAppended(old, new) ==
    /\ Len(new) = Len(old) + 1
    /\ SubSeq(new, 1, Len(old)) = old

\* the cybsi.api form carries the share level and the timestamp it was
\* constructed with
ConstructionKept ==
    LET d == forms[ApiForm]._data
    IN  /\ {"shareLevel", "seenAt"} \subseteq DOMAIN d
        /\ d.shareLevel = Str(made[ApiForm].share_level.value)
        /\ d.seenAt = rfc3339_timestamp(made[ApiForm].seen_at)

\* the frame of a step: a builder call on the cybsi.api form changes its own
\* part of the document only, and no step shortens a fact list
BuilderFrame ==
    LET d == forms[ApiForm]._data
        e == forms'[ApiForm]._data
        eav == ListedIn(d, "entityAttributeValues")
        rel == ListedIn(d, "entityRelationships")
        eav2 == ListedIn(e, "entityAttributeValues")
        rel2 == ListedIn(e, "entityRelationships")
        called(op) == last'.op = op /\ last'.self = ApiForm
    IN  /\ Len(eav2) >= Len(eav) /\ SubSeq(eav2, 1, Len(eav)) = eav
        /\ Len(rel2) >= Len(rel) /\ SubSeq(rel2, 1, Len(rel)) = rel
        /\ e.shareLevel = d.shareLevel
        /\ e.seenAt = d.seenAt
        /\ called("add_attribute_fact") =>
              /\ OneAppended(eav, eav2)
              /\ eav2[Len(eav2)] = AttributeFact(last'.args)
              /\ rel2 = rel
              /\ ValueIn(e, "dataSourceUUID") = ValueIn(d, "dataSourceUUID")
              /\ DOMAIN e = DOMAIN d \cup {"content"}
        /\ called("add_entity_relationship") =>
              /\ OneAppended(rel, rel2)
              /\ rel2[Len(rel2)] = RelationshipFact(last'.args)
              /\ eav2 = eav
              /\ ValueIn(e, "dataSourceUUID") = ValueIn(d, "dataSourceUUID")
              /\ DOMAIN e = DOMAIN d \cup {"content"}
        /\ called("set_data_source") =>
              /\ DOMAIN e = DOMAIN d \cup {"dataSourceUUID"}
              /\ \A k \in DOMAIN d \ {"dataSourceUUID"} : e[k] = d[k]
              /\ e.dataSourceUUID = str_uuid(last'.args.source_uuid)

\* C15: add_attribute_fact appends exactly one record to
\* entityAttributeValues, add_entity_relationship exactly one to
\* entityRelationships and set_data_source sets dataSourceUUID, each leaving
\* the rest of the document as it was; so the form always carries the
\* shareLevel and the seenAt of its construction, and its fact lists only grow.
BuildersChangeOwnPartOnly == [](ConstructionKept) /\ [][BuilderFrame]_vars

\* C15 witness: a relationship has been added to a form that already had a
\* data source and an attribute fact
RelationshipAfterDataSourceAndFact ==
    /\ last.op = "add_entity_relationship"
    /\ last.self = ApiForm
    /\ "dataSourceUUID" \in DOMAIN forms[ApiForm]._data
    /\ Len(Listed(ApiForm, "entityAttributeValues")) > 0

=============================================================================
